---- MODULE Spec2Model ----
(***************************************************************************)
(* A model of the two analytic engines of the unemployment tracker:        *)
(*   - SkillMatcher  (processing/skill_matcher.py): the job-profile         *)
(*     catalog, the skill co-occurrence graph and the three queries;        *)
(*   - TrendDetector (processing/trend_detector.py): detect_trends and      *)
(*     detect_shocks over a small table of rows.                            *)
(* Floating-point quotients are modelled as exact reduced fractions         *)
(* <<num, den>> with den > 0, so equal quotients are equal values.          *)
(***************************************************************************)
EXTENDS Integers, Sequences, FiniteSets, TLC

VARIABLES
    job_profiles,   \* SkillMatcher.job_profiles: the catalog, in dict (insertion) order
    skill_graph,    \* SkillMatcher.skill_graph: [nodes, weight], weight maps an edge {s,t} to its weight
    cooccur,        \* history: per pair of skills, how many profiles given to the matcher required both
    n_adds,         \* history: number of add_job_profile calls so far
    pc,             \* "idle", or "returned" while the last query's result is held by the caller
    op,             \* the query whose result is held: its name and arguments
    result,         \* what the last call returned
    raised,         \* TRUE when the last call ended in an exception instead of returning
    min_periods,    \* TrendDetector.min_periods
    threshold,      \* TrendDetector.threshold
    adding,         \* the add_job_profile call in progress on another thread: its profile and next step
    first_attrs,    \* history: per skill id, the attributes of the Skill of the first profile that required it
    geo             \* GeoCoder._geocode_with_retry: the call in progress, its attempts and what it returned

vars == <<job_profiles, skill_graph, cooccur, n_adds, pc, op, result, raised,
          min_periods, threshold, adding, first_attrs, geo>>

-----------------------------------------------------------------------------
(* Bounds and input menus *)

MaxInit == 2        \* profiles in the catalog handed to the constructor
MaxAdds == 2        \* add_job_profile calls in one behaviour
MaxRows == 3        \* rows of a table handed to the TrendDetector
MaxGroupRows == 4   \* rows of a table handed to detect_trends together with grouping columns

JobOrder == <<"j1", "j2", "j3">>
Jobs == {JobOrder[i] : i \in 1..Len(JobOrder)}
Skills == {"s1", "s2", "s3"}
SkillOrder == <<"s1", "s2", "s3">>
SkillSets == SUBSET Skills
Edges == {e \in SUBSET Skills : Cardinality(e) = 2}

TopNs == {0, 1, 3}                              \* top_n
Overlaps == {<<0, 1>>, <<3, 10>>, <<1, 2>>}     \* min_skill_overlap: 0, 0.3 (the default), 0.5
Hops == {-1, 0, 1, 2}                           \* max_hops (2 is the default)

-----------------------------------------------------------------------------
(* Exact quotients *)

Abs(x) == IF x < 0 THEN -x ELSE x

RECURSIVE GCD(_, _)
GCD(a, b) == IF b = 0 THEN a ELSE GCD(b, a % b)

\* Python's n / d (d # 0) as a reduced fraction with a positive denominator.
Quot(n, d) ==
    LET g == GCD(Abs(n), Abs(d))
        s == IF d < 0 THEN -1 ELSE 1
    IN  <<(s * n) \div g, (s * d) \div g>>

Zero == <<0, 1>>
One == <<1, 1>>

Lt(a, b) == a[1] * b[2] < b[1] * a[2]
Le(a, b) == a[1] * b[2] <= b[1] * a[2]
FMin(a, b) == IF Lt(b, a) THEN b ELSE a     \* Python min(a, b): the first of equal values
FMax(a, b) == IF Lt(a, b) THEN b ELSE a     \* Python max(a, b): the first of equal values

-----------------------------------------------------------------------------
(* The catalog: a dict from job id to JobProfile, kept in insertion order *)

SkillAttrs == {"a1", "a2"}      \* what a Skill object carries besides its id (name, category, level)
DefaultAttr == "a1"

\* A profile whose required_skills maps each skill id of attrs to a Skill with those attributes.
SkilledProfile(id, attrs) == [id |-> id, skills |-> DOMAIN attrs, attrs |-> attrs]

JobProfile(id, skills) == SkilledProfile(id, [s \in skills |-> DefaultAttr])

get_skill_ids(profile) == profile.skills

HasJob(cat, id) == \E i \in 1..Len(cat) : cat[i].id = id

GetJob(cat, id) == cat[CHOOSE i \in 1..Len(cat) : cat[i].id = id]

\* self.job_profiles[profile.id] = profile: an existing key keeps its position.
DictSet(cat, profile) ==
    IF HasJob(cat, profile.id)
    THEN [i \in 1..Len(cat) |-> IF cat[i].id = profile.id THEN profile ELSE cat[i]]
    ELSE Append(cat, profile)

\* list(profile.required_skills.keys())
SkillList(profile) == SelectSeq(SkillOrder, LAMBDA s : s \in profile.skills)

-----------------------------------------------------------------------------
(* The skill graph *)

EmptyGraph == [nodes |-> {}, weight |-> <<>>, attrs |-> <<>>]

has_node(g, s) == s \in g.nodes

\* networkx add_node(s, **attrs): a new node gets the attributes, an existing node has
\* them updated.
add_node(g, s, a) ==
    [g EXCEPT !.nodes = @ \cup {s},
              !.attrs = [n \in DOMAIN g.attrs \cup {s} |-> IF n = s THEN a ELSE g.attrs[n]]]

has_edge(g, s, t) == {s, t} \in DOMAIN g.weight

\* BumpEdge with the weight of an existing edge left as it is.
BumpEdge_NoIncrement(g, s, t) ==
    IF {s, t} \in DOMAIN g.weight THEN g
    ELSE [g EXCEPT !.nodes = @ \cup {s, t}, !.weight = @ @@ ({s, t} :> 1)]

\* The body of both edge loops: bump the weight of an existing edge, or add the
\* edge (and its end nodes) at weight 1.
BumpEdge(g, s, t) ==
    IF has_edge(g, s, t)
    THEN [g EXCEPT !.weight[{s, t}] = @ + 1]
    ELSE [g EXCEPT !.nodes = @ \cup {s, t}, !.weight = @ @@ ({s, t} :> 1)]

\* EdgeLoop that joins only skills next to each other in the list.
RECURSIVE EdgeLoop_AdjacentOnly(_, _, _, _)
EdgeLoop_AdjacentOnly(g, skills, i, j) ==
    IF i >= Len(skills) THEN g
    ELSE EdgeLoop_AdjacentOnly(BumpEdge(g, skills[i], skills[i + 1]), skills, i + 1, i + 2)

\* for i in range(len(skills)): for j in range(i + 1, len(skills)): ...
RECURSIVE EdgeLoop(_, _, _, _)
EdgeLoop(g, skills, i, j) ==
    IF i > Len(skills) THEN g
    ELSE IF j > Len(skills) THEN EdgeLoop(g, skills, i + 1, i + 2)
    ELSE EdgeLoop(BumpEdge(g, skills[i], skills[j]), skills, i, j + 1)

\* _update_skill_graph that starts again from an empty graph.
_update_skill_graph_FromScratch(g, profile) ==
    EdgeLoop([nodes |-> profile.skills, weight |-> <<>>, attrs |-> profile.attrs],
             SkillList(profile), 1, 2)

\* for skill_id, skill in profile.required_skills.items():
\*     if not self.skill_graph.has_node(skill_id): add_node(skill_id, **skill.__dict__)
RECURSIVE NodeLoop_IfAbsent(_, _, _, _)
NodeLoop_IfAbsent(g, profile, skills, i) ==
    IF i > Len(skills) THEN g
    ELSE NodeLoop_IfAbsent(IF has_node(g, skills[i]) THEN g
                           ELSE add_node(g, skills[i], profile.attrs[skills[i]]),
                           profile, skills, i + 1)

AddNewNodes(g, profile) == NodeLoop_IfAbsent(g, profile, SkillList(profile), 1)

\* Nodes for the skills not yet in the graph, then the edge loop.
_update_skill_graph(g, profile) ==
    EdgeLoop(AddNewNodes(g, profile), SkillList(profile), 1, 2)

RECURSIVE BuildEdges(_, _, _)
BuildEdges(g, cat, k) ==
    IF k > Len(cat) THEN g
    ELSE BuildEdges(EdgeLoop(g, SkillList(cat[k]), 1, 2), cat, k + 1)

\* for skill_id, skill in profile.required_skills.items():
\*     self.skill_graph.add_node(skill_id, **skill.__dict__)
RECURSIVE NodeLoop(_, _, _, _)
NodeLoop(g, profile, skills, i) ==
    IF i > Len(skills) THEN g
    ELSE NodeLoop(add_node(g, skills[i], profile.attrs[skills[i]]), profile, skills, i + 1)

\* The first loop of _build_skill_graph, over the profiles in catalog order.
RECURSIVE BuildNodes(_, _, _)
BuildNodes(g, cat, k) ==
    IF k > Len(cat) THEN g
    ELSE BuildNodes(NodeLoop(g, cat[k], SkillList(cat[k]), 1), cat, k + 1)

_build_skill_graph(cat) == BuildEdges(BuildNodes(EmptyGraph, cat, 1), cat, 1)

\* History: the Skill attributes first seen for each skill id, after one more profile
\* is handed to the matcher.
FirstSeen(first, profile) ==
    [s \in DOMAIN first \cup profile.skills |->
        IF s \in DOMAIN first THEN first[s] ELSE profile.attrs[s]]

RECURSIVE FirstSeenIn(_, _, _)
FirstSeenIn(first, cat, k) ==
    IF k > Len(cat) THEN first
    ELSE FirstSeenIn(FirstSeen(first, cat[k]), cat, k + 1)

\* History: the co-occurrence count after one more profile is handed to the matcher.
CountProfile(count, profile) ==
    [e \in Edges |-> count[e] + (IF e \subseteq profile.skills THEN 1 ELSE 0)]

-----------------------------------------------------------------------------
(* find_similar_jobs *)

\* intersection / union if union > 0 else 0
Jaccard(source_skills, target_skills) ==
    LET intersection == Cardinality(source_skills \cap target_skills)
        union == Cardinality(source_skills \cup target_skills)
    IN  IF union > 0 THEN Quot(intersection, union) ELSE Zero

\* A candidate is dropped when it is the source or has no skills.
SkipCandidate(profile, source_job_id) ==
    \/ profile.id = source_job_id
    \/ get_skill_ids(profile) = {}

\* The loop over the catalog: the (job_id, similarity) pairs that pass the filter,
\* in catalog order, from position k on.
RECURSIVE SimilarLoop(_, _, _, _)
SimilarLoop(cat, source_job_id, min_skill_overlap, k) ==
    IF k > Len(cat) THEN <<>>
    ELSE LET profile == cat[k]
             rest == SimilarLoop(cat, source_job_id, min_skill_overlap, k + 1)
             similarity == Jaccard(get_skill_ids(GetJob(cat, source_job_id)),
                                   get_skill_ids(profile))
         IN  IF SkipCandidate(profile, source_job_id) THEN rest
             ELSE IF Le(min_skill_overlap, similarity)
                  THEN <<[job_id |-> profile.id, similarity |-> similarity]>> \o rest
                  ELSE rest

\* InsertBySimilarity without reverse=True: ascending order.
RECURSIVE InsertBySimilarity_Ascending(_, _)
InsertBySimilarity_Ascending(sorted, x) ==
    IF sorted = <<>> THEN <<x>>
    ELSE IF Lt(x.similarity, Head(sorted).similarity) THEN <<x>> \o sorted
    ELSE <<Head(sorted)>> \o InsertBySimilarity_Ascending(Tail(sorted), x)

\* sorted(..., key=similarity, reverse=True): stable, equal scores keep their order.
RECURSIVE InsertBySimilarity(_, _)
InsertBySimilarity(sorted, x) ==
    IF sorted = <<>> THEN <<x>>
    ELSE IF Lt(Head(sorted).similarity, x.similarity) THEN <<x>> \o sorted
    ELSE <<Head(sorted)>> \o InsertBySimilarity(Tail(sorted), x)

RECURSIVE SortBySimilarity(_)
SortBySimilarity(seq) ==
    IF seq = <<>> THEN <<>>
    ELSE InsertBySimilarity(SortBySimilarity(SubSeq(seq, 1, Len(seq) - 1)), seq[Len(seq)])

\* Python's seq[:n], also for negative n.
Slice(seq, n) ==
    IF n >= 0 THEN SubSeq(seq, 1, IF n < Len(seq) THEN n ELSE Len(seq))
    ELSE SubSeq(seq, 1, IF Len(seq) + n > 0 THEN Len(seq) + n ELSE 0)

find_similar_jobs(cat, source_job_id, top_n, min_skill_overlap) ==
    IF ~HasJob(cat, source_job_id) THEN <<>>
    ELSE Slice(SortBySimilarity(SimilarLoop(cat, source_job_id, min_skill_overlap, 1)), top_n)

-----------------------------------------------------------------------------
(* find_transition_paths *)

\* _create_transition_path with the gap taken over the union of both skill sets.
_create_transition_path_GapOverUnion(source_job_id, target_job_id, source_skills, target_skills) ==
    LET common_skills == source_skills \cap target_skills
        missing_skills == target_skills \ source_skills
        skill_gap == IF target_skills # {}
                     THEN Quot(Cardinality(missing_skills),
                               Cardinality(source_skills \cup target_skills))
                     ELSE One
    IN  [source_job |-> source_job_id,
         target_job |-> target_job_id,
         skill_overlap |-> common_skills,
         missing_skills |-> missing_skills,
         transition_difficulty |-> skill_gap,
         skill_gap |-> skill_gap,
         common_skills_count |-> Cardinality(common_skills),
         missing_skills_count |-> Cardinality(missing_skills)]

_create_transition_path(source_job_id, target_job_id, source_skills, target_skills) ==
    LET common_skills == source_skills \cap target_skills
        missing_skills == target_skills \ source_skills
        skill_gap == IF target_skills # {}
                     THEN Quot(Cardinality(missing_skills), Cardinality(target_skills))
                     ELSE One
    IN  [source_job |-> source_job_id,
         target_job |-> target_job_id,
         skill_overlap |-> common_skills,
         missing_skills |-> missing_skills,
         transition_difficulty |-> FMin(One, skill_gap),
         skill_gap |-> skill_gap,
         common_skills_count |-> Cardinality(common_skills),
         missing_skills_count |-> Cardinality(missing_skills)]

\* CombinedPath with the easier of the two legs as its difficulty.
CombinedPath_MinDifficulty(source_job_id, target_job_id, to_intermediate, intermediate_to_target) ==
    [source_job |-> source_job_id,
     target_job |-> target_job_id,
     skill_overlap |-> to_intermediate.skill_overlap \cup intermediate_to_target.skill_overlap,
     missing_skills |-> to_intermediate.missing_skills \cup intermediate_to_target.missing_skills,
     transition_difficulty |-> FMin(to_intermediate.transition_difficulty,
                                    intermediate_to_target.transition_difficulty),
     skill_gap |-> FMax(to_intermediate.skill_gap, intermediate_to_target.skill_gap),
     common_skills_count |-> to_intermediate.common_skills_count
                             + intermediate_to_target.common_skills_count,
     missing_skills_count |-> to_intermediate.missing_skills_count
                              + intermediate_to_target.missing_skills_count]

\* Both legs through one intermediate job combined into one path.
CombinedPath(source_job_id, target_job_id, to_intermediate, intermediate_to_target) ==
    [source_job |-> source_job_id,
     target_job |-> target_job_id,
     skill_overlap |-> to_intermediate.skill_overlap \cup intermediate_to_target.skill_overlap,
     missing_skills |-> to_intermediate.missing_skills \cup intermediate_to_target.missing_skills,
     transition_difficulty |-> FMax(to_intermediate.transition_difficulty,
                                    intermediate_to_target.transition_difficulty),
     skill_gap |-> FMax(to_intermediate.skill_gap, intermediate_to_target.skill_gap),
     common_skills_count |-> to_intermediate.common_skills_count
                             + intermediate_to_target.common_skills_count,
     missing_skills_count |-> to_intermediate.missing_skills_count
                              + intermediate_to_target.missing_skills_count]

Feasible(path) == Lt(path.transition_difficulty, One)

\* The loop over the catalog for intermediate jobs, from position k on.
RECURSIVE IntermediatePaths(_, _, _, _)
IntermediatePaths(cat, source_job_id, target_job_id, k) ==
    IF k > Len(cat) THEN <<>>
    ELSE LET profile == cat[k]
             rest == IntermediatePaths(cat, source_job_id, target_job_id, k + 1)
             to_intermediate ==
                 _create_transition_path(source_job_id, profile.id,
                     get_skill_ids(GetJob(cat, source_job_id)), get_skill_ids(profile))
             intermediate_to_target ==
                 _create_transition_path(profile.id, target_job_id,
                     get_skill_ids(profile), get_skill_ids(GetJob(cat, target_job_id)))
         IN  IF profile.id \in {source_job_id, target_job_id} THEN rest
             ELSE IF Feasible(to_intermediate) /\ Feasible(intermediate_to_target)
                  THEN <<CombinedPath(source_job_id, target_job_id,
                                      to_intermediate, intermediate_to_target)>> \o rest
                  ELSE rest

\* KeepUnique without the dictionary: every path is kept.
KeepUnique_NoDedup(unique_paths, path) == Append(unique_paths, path)

\* KeepUnique that never replaces the path stored under a key.
KeepUnique_FirstSeen(unique_paths, path) ==
    IF \E i \in 1..Len(unique_paths) : unique_paths[i].missing_skills = path.missing_skills
    THEN unique_paths
    ELSE Append(unique_paths, path)

\* One step of the deduplication loop: unique_paths is a dict keyed by the
\* missing-skills set, held here in the insertion order of its keys.
KeepUnique(unique_paths, path) ==
    IF \E i \in 1..Len(unique_paths) : unique_paths[i].missing_skills = path.missing_skills
    THEN [i \in 1..Len(unique_paths) |->
            IF /\ unique_paths[i].missing_skills = path.missing_skills
               /\ Lt(path.transition_difficulty, unique_paths[i].transition_difficulty)
            THEN path ELSE unique_paths[i]]
    ELSE Append(unique_paths, path)

RECURSIVE UniquePaths(_, _)
UniquePaths(unique_paths, all_paths) ==
    IF all_paths = <<>> THEN unique_paths
    ELSE UniquePaths(KeepUnique(unique_paths, Head(all_paths)), Tail(all_paths))

\* PathBefore with ties broken by ascending common_skills_count.
PathBefore_FewestCommonFirst(p, q) ==
    \/ Lt(p.transition_difficulty, q.transition_difficulty)
    \/ /\ p.transition_difficulty = q.transition_difficulty
       /\ p.common_skills_count < q.common_skills_count

\* Sort key (transition_difficulty, -common_skills_count), ascending.
PathBefore(p, q) ==
    \/ Lt(p.transition_difficulty, q.transition_difficulty)
    \/ /\ p.transition_difficulty = q.transition_difficulty
       /\ p.common_skills_count > q.common_skills_count

RECURSIVE InsertPath(_, _)
InsertPath(sorted, x) ==
    IF sorted = <<>> THEN <<x>>
    ELSE IF PathBefore(x, Head(sorted)) THEN <<x>> \o sorted
    ELSE <<Head(sorted)>> \o InsertPath(Tail(sorted), x)

RECURSIVE SortPaths(_)
SortPaths(seq) ==
    IF seq = <<>> THEN <<>>
    ELSE InsertPath(SortPaths(SubSeq(seq, 1, Len(seq) - 1)), seq[Len(seq)])

\* DirectOnly with < in place of <=.
DirectOnly_Negative(max_hops) == max_hops < 0

\* DirectOnly that counts one hop as none.
DirectOnly_UpToOne(max_hops) == max_hops <= 1

\* if max_hops <= 0: only the direct path is returned.
DirectOnly(max_hops) == max_hops <= 0

find_transition_paths(cat, source_job_id, target_job_id, max_hops) ==
    IF ~HasJob(cat, source_job_id) \/ ~HasJob(cat, target_job_id) THEN <<>>
    ELSE LET direct_path ==
                 _create_transition_path(source_job_id, target_job_id,
                     get_skill_ids(GetJob(cat, source_job_id)),
                     get_skill_ids(GetJob(cat, target_job_id)))
             intermediate_paths == IntermediatePaths(cat, source_job_id, target_job_id, 1)
             all_paths == SelectSeq(<<direct_path>> \o intermediate_paths, Feasible)
         IN  IF DirectOnly(max_hops)
             THEN (IF Feasible(direct_path) THEN <<direct_path>> ELSE <<>>)
             ELSE SortPaths(UniquePaths(<<>>, all_paths))

-----------------------------------------------------------------------------
(* recommend_training *)

\* A course dictionary: with or without the 'skills_covered' field.
Course(id, has_field, covered) ==
    [id |-> id, has_skills_covered |-> has_field, skills_covered |-> covered]

\* The course catalogs handed to recommend_training.
CourseLists ==
    {<<>>,
     <<Course("c1", TRUE, {"s2"}), Course("c2", TRUE, {"s2", "s3"})>>,
     <<Course("c1", FALSE, {}), Course("c2", TRUE, {"s3"}), Course("c3", TRUE, {"s1", "s3"})>>}

\* CourseScores with the relevance taken over the skills the course covers.
RECURSIVE CourseScores_OverCourseSkills(_, _)
CourseScores_OverCourseSkills(available_courses, missing_skills) ==
    IF available_courses = <<>> THEN <<>>
    ELSE LET course == Head(available_courses)
             rest == CourseScores_OverCourseSkills(Tail(available_courses), missing_skills)
             covered_skills == course.skills_covered \cap missing_skills
         IN  IF ~course.has_skills_covered THEN rest
             ELSE IF covered_skills = {} THEN rest
             ELSE <<[course_id |-> course.id,
                     skills_covered |-> covered_skills,
                     relevance_score |-> Quot(Cardinality(covered_skills),
                                              Cardinality(course.skills_covered)),
                     missing_skills_covered |-> Cardinality(covered_skills),
                     total_missing_skills |-> Cardinality(missing_skills)]>> \o rest

\* The loop over available_courses: one record per course that has the field
\* 'skills_covered' and covers at least one missing skill.
RECURSIVE CourseScores(_, _)
CourseScores(available_courses, missing_skills) ==
    IF available_courses = <<>> THEN <<>>
    ELSE LET course == Head(available_courses)
             rest == CourseScores(Tail(available_courses), missing_skills)
             covered_skills == course.skills_covered \cap missing_skills
         IN  IF ~course.has_skills_covered THEN rest
             ELSE IF covered_skills = {} THEN rest
             ELSE <<[course_id |-> course.id,
                     skills_covered |-> covered_skills,
                     relevance_score |-> Quot(Cardinality(covered_skills),
                                              Cardinality(missing_skills)),
                     missing_skills_covered |-> Cardinality(covered_skills),
                     total_missing_skills |-> Cardinality(missing_skills)]>> \o rest

RECURSIVE InsertByRelevance(_, _)
InsertByRelevance(sorted, x) ==
    IF sorted = <<>> THEN <<x>>
    ELSE IF Lt(Head(sorted).relevance_score, x.relevance_score) THEN <<x>> \o sorted
    ELSE <<Head(sorted)>> \o InsertByRelevance(Tail(sorted), x)

RECURSIVE SortByRelevance(_)
SortByRelevance(seq) ==
    IF seq = <<>> THEN <<>>
    ELSE InsertByRelevance(SortByRelevance(SubSeq(seq, 1, Len(seq) - 1)), seq[Len(seq)])

\* recommend_training with an unknown source treated as a job without skills.
recommend_training_UnknownAsEmpty(cat, source_job_id, target_job_id, available_courses) ==
    IF ~HasJob(cat, target_job_id) THEN <<>>
    ELSE LET source_skills == IF HasJob(cat, source_job_id)
                              THEN get_skill_ids(GetJob(cat, source_job_id)) ELSE {}
             missing_skills == get_skill_ids(GetJob(cat, target_job_id)) \ source_skills
         IN  IF missing_skills = {} THEN <<>>
             ELSE SortByRelevance(CourseScores(available_courses, missing_skills))

recommend_training(cat, source_job_id, target_job_id, available_courses) ==
    IF ~HasJob(cat, source_job_id) \/ ~HasJob(cat, target_job_id) THEN <<>>
    ELSE LET missing_skills == get_skill_ids(GetJob(cat, target_job_id))
                               \ get_skill_ids(GetJob(cat, source_job_id))
         IN  IF missing_skills = {} THEN <<>>
             ELSE SortByRelevance(CourseScores(available_courses, missing_skills))

-----------------------------------------------------------------------------
(* TrendDetector: the tables it is given *)

\* Strings are sequences of characters, so that joining them is concatenation.
Chars == <<",", "a">>
CharRank(c) == CHOOSE i \in 1..Len(Chars) : Chars[i] = c

RECURSIVE StrLt(_, _)
StrLt(s, t) ==
    IF t = <<>> THEN FALSE
    ELSE IF s = <<>> THEN TRUE
    ELSE IF Head(s) # Head(t) THEN CharRank(Head(s)) < CharRank(Head(t))
    ELSE StrLt(Tail(s), Tail(t))

\* Tuples of strings compare element by element.
RECURSIVE TupleLt(_, _)
TupleLt(a, b) ==
    IF b = <<>> THEN FALSE
    ELSE IF a = <<>> THEN TRUE
    ELSE IF Head(a) # Head(b) THEN StrLt(Head(a), Head(b))
    ELSE TupleLt(Tail(a), Tail(b))

\* The values of the two grouping columns of a row.
GroupTuples ==
    {<<<<"a">>, <<"a">>>>,
     <<<<"a">>, <<"a", ",", "a">>>>,
     <<<<"a", ",", "a">>, <<"a">>>>}

Values == {-1, 0, 1, 2}                                 \* the value column
MinPeriods == {2, 3}                                    \* min_periods (3 is the default)
Thresholds == {<<-1, 10>>, <<0, 1>>, <<1, 10>>, <<1, 1>>}   \* threshold (0.1 is the default)
ZThresholds == {<<-1, 1>>, <<0, 1>>, <<1, 1>>, <<2, 1>>}    \* z_threshold (2.0 is the default)
GroupCols == {<<>>, <<1>>, <<1, 2>>}                    \* group_cols: none, one column, both

\* Tables of at most MaxRows rows with distinct dates, given latest row first.
Frames ==
    UNION {{[i \in 1..n |-> [group |-> f[i][1], date |-> n + 1 - i, value |-> f[i][2]]] :
               f \in [1..n -> GroupTuples \X Values]} : n \in 0..MaxRows}

GroupKey(row, group_cols) == [i \in 1..Len(group_cols) |-> row.group[group_cols[i]]]

\* Order of sort_values(by=[*group_cols, date_col]); by date alone without grouping.
RowBefore(r, q, group_cols) ==
    \/ TupleLt(GroupKey(r, group_cols), GroupKey(q, group_cols))
    \/ /\ GroupKey(r, group_cols) = GroupKey(q, group_cols)
       /\ r.date < q.date

RECURSIVE InsertRow(_, _, _)
InsertRow(sorted, x, group_cols) ==
    IF sorted = <<>> THEN <<x>>
    ELSE IF RowBefore(x, Head(sorted), group_cols) THEN <<x>> \o sorted
    ELSE <<Head(sorted)>> \o InsertRow(Tail(sorted), x, group_cols)

RECURSIVE sort_values(_, _)
sort_values(df, group_cols) ==
    IF df = <<>> THEN <<>>
    ELSE InsertRow(sort_values(SubSeq(df, 1, Len(df) - 1), group_cols), df[Len(df)], group_cols)

\* The group keys of df.groupby(group_cols), in the order the groups are visited
\* (sorted); df is sorted by group key.
RECURSIVE GroupNames(_, _)
GroupNames(df, group_cols) ==
    IF df = <<>> THEN <<>>
    ELSE LET rest == GroupNames(Tail(df), group_cols)
             name == GroupKey(Head(df), group_cols)
         IN  IF rest # <<>> /\ Head(rest) = name THEN rest ELSE <<name>> \o rest

GroupRows(df, group_cols, name) == SelectSeq(df, LAMBDA r : GroupKey(r, group_cols) = name)

\* ','.join(str(g) for g in group_name)
RECURSIVE JoinKey(_)
JoinKey(name) ==
    IF Len(name) = 1 THEN name[1]
    ELSE name[1] \o <<",">> \o JoinKey(Tail(name))

OverallKey == <<"overall">>

ColumnOf(df, field) == [i \in 1..Len(df) |-> df[i][field]]

RECURSIVE SumSeq(_)
SumSeq(xs) == IF xs = <<>> THEN 0 ELSE Head(xs) + SumSeq(Tail(xs))

-----------------------------------------------------------------------------
(* detect_trends *)

\* TooFew with <= in place of <.
TooFew_Inclusive(n, min) == n <= min

\* len(...) < self.min_periods
TooFew(n, min) == n < min

FAbs(q) == <<Abs(q[1]), q[2]>>

\* np.polyfit(x, values, 1) for x = 0..n-1, n >= 2: slope = b / d, intercept = a / d.
polyfit(values) ==
    LET n == Len(values)
        sx == SumSeq([i \in 1..n |-> i - 1])
        sxx == SumSeq([i \in 1..n |-> (i - 1) * (i - 1)])
        sy == SumSeq(values)
        sxy == SumSeq([i \in 1..n |-> (i - 1) * values[i]])
    IN  [b |-> n * sxy - sx * sy, a |-> sy * sxx - sx * sxy, d |-> n * sxx - sx * sx]

\* 1 - ss_res / ss_tot if ss_tot != 0 else 0
r_squared(values) ==
    LET n == Len(values)
        fit == polyfit(values)
        sy == SumSeq(values)
        \* ss_res = res_num / d^2, ss_tot = tot_num / n^2
        res_num == SumSeq([i \in 1..n |->
                      (fit.d * values[i] - fit.a - fit.b * (i - 1))
                      * (fit.d * values[i] - fit.a - fit.b * (i - 1))])
        tot_num == SumSeq([i \in 1..n |-> (n * values[i] - sy) * (n * values[i] - sy)])
    IN  IF tot_num # 0
        THEN Quot(tot_num * fit.d * fit.d - res_num * n * n, tot_num * fit.d * fit.d)
        ELSE Zero

\* (end_val - start_val) / start_val if start_val != 0 else 0
pct_change(start_val, end_val) ==
    IF start_val # 0 THEN Quot(end_val - start_val, start_val) ELSE Zero

\* Direction with <= in place of < in the test for STABLE.
Direction_BoundaryStable(change, thr) ==
    IF Le(<<Abs(change[1]), change[2]>>, thr) THEN "STABLE"
    ELSE IF Lt(Zero, change) THEN "INCREASING"
    ELSE "DECREASING"

Direction(change, thr) ==
    IF Lt(FAbs(change), thr) THEN "STABLE"
    ELSE IF Lt(Zero, change) THEN "INCREASING"
    ELSE "DECREASING"

None == [none |-> TRUE]

_analyze_series(values, dates, min, thr) ==
    IF TooFew(Len(values), min) THEN None
    ELSE LET start_val == values[1]
             end_val == values[Len(values)]
             change == pct_change(start_val, end_val)
         IN  [direction |-> Direction(change, thr),
              magnitude |-> FAbs(change),
              confidence |-> r_squared(values),
              start_value |-> start_val,
              end_value |-> end_val,
              period |-> <<dates[1], dates[Len(dates)]>>]

\* results[key] = value on a dict held in the insertion order of its keys.
DictPut(results, key, value) ==
    IF \E i \in 1..Len(results) : results[i].key = key
    THEN [i \in 1..Len(results) |->
            IF results[i].key = key THEN [key |-> key, value |-> value] ELSE results[i]]
    ELSE Append(results, [key |-> key, value |-> value])

\* The loop over the groups, from the k-th group name on.
RECURSIVE GroupLoop(_, _, _, _, _, _, _)
GroupLoop(results, df, group_cols, names, k, min, thr) ==
    IF k > Len(names) THEN results
    ELSE LET group_df == GroupRows(df, group_cols, names[k])
             trend == _analyze_series(ColumnOf(group_df, "value"),
                                      ColumnOf(group_df, "date"), min, thr)
         IN  IF TooFew(Len(group_df), min) \/ trend = None
             THEN GroupLoop(results, df, group_cols, names, k + 1, min, thr)
             ELSE GroupLoop(DictPut(results, JoinKey(names[k]), trend),
                            df, group_cols, names, k + 1, min, thr)

detect_trends(df, group_cols, min, thr) ==
    IF df = <<>> \/ TooFew(Len(df), min) THEN <<>>
    ELSE LET sorted == sort_values(df, group_cols)
             overall == _analyze_series(ColumnOf(sorted, "value"),
                                        ColumnOf(sorted, "date"), min, thr)
         IN  IF group_cols = <<>>
             THEN (IF overall # None THEN <<[key |-> OverallKey, value |-> overall]>> ELSE <<>>)
             ELSE GroupLoop(<<>>, sorted, group_cols, GroupNames(sorted, group_cols), 1, min, thr)

-----------------------------------------------------------------------------
(* detect_shocks *)

\* A z-score is NaN or a real number held exactly as its sign and its square.
NaN == [nan |-> TRUE]
ZVal(sgn, sq) == [sgn |-> sgn, sq |-> sq]
Sign(x) == IF x > 0 THEN 1 ELSE IF x < 0 THEN -1 ELSE 0

\* calculate_zscores: (values - mean) / std if std != 0 else zeros, with the sample
\* standard deviation (ddof=1), which is NaN for a single value.
calculate_zscores(values) ==
    LET n == Len(values)
        s == SumSeq(values)
        q == SumSeq([i \in 1..n |-> (n * values[i] - s) * (n * values[i] - s)])
    IN  [i \in 1..n |->
            IF n = 1 THEN NaN
            ELSE IF q = 0 THEN ZVal(0, Zero)
            ELSE ZVal(Sign(n * values[i] - s),
                      Quot((n * values[i] - s) * (n * values[i] - s) * (n - 1), q))]

\* ShockMask with <= in place of >=.
ShockMask_Reversed(z, z_threshold) ==
    /\ z # [nan |-> TRUE]
    /\ Le(Zero, z_threshold)
    /\ Le(z.sq, <<z_threshold[1] * z_threshold[1], z_threshold[2] * z_threshold[2]>>)

\* abs(z) >= z_threshold; a comparison with NaN is False.
ShockMask(z, z_threshold) ==
    /\ z # NaN
    /\ \/ Le(z_threshold, Zero)
       \/ Le(<<z_threshold[1] * z_threshold[1], z_threshold[2] * z_threshold[2]>>, z.sq)

ZLess(y, z) ==
    IF y.sgn # z.sgn THEN y.sgn < z.sgn
    ELSE IF y.sgn > 0 THEN Lt(y.sq, z.sq)
    ELSE IF y.sgn < 0 THEN Lt(z.sq, y.sq)
    ELSE FALSE

\* ShockRow that labels a z-score of 0 as positive.
ShockRow_ZeroPositive(row, z) ==
    [group |-> row.group, date |-> row.date, value |-> row.value,
     z_score |-> z,
     shock_magnitude |-> [sgn |-> Abs(z.sgn), sq |-> z.sq],
     shock_direction |-> IF z.sgn >= 0 THEN "positive" ELSE "negative"]

\* A row of df[shock_mask] with shock_magnitude and shock_direction added.
ShockRow(row, z) ==
    [group |-> row.group, date |-> row.date, value |-> row.value,
     z_score |-> z,
     shock_magnitude |-> ZVal(Abs(z.sgn), z.sq),
     shock_direction |-> IF z.sgn > 0 THEN "positive" ELSE "negative"]

\* df[shock_mask] with the two added columns, in the order of df.
RECURSIVE ShockEvents(_, _, _, _)
ShockEvents(df, zs, z_threshold, k) ==
    IF k > Len(df) THEN <<>>
    ELSE LET rest == ShockEvents(df, zs, z_threshold, k + 1)
         IN  IF ShockMask(zs[k], z_threshold) THEN <<ShockRow(df[k], zs[k])>> \o rest
             ELSE rest

\* InsertShock that orders by the magnitude of the z-score.
RECURSIVE InsertShock_ByMagnitude(_, _)
InsertShock_ByMagnitude(sorted, x) ==
    IF sorted = <<>> THEN <<x>>
    ELSE IF Lt(Head(sorted).z_score.sq, x.z_score.sq) THEN <<x>> \o sorted
    ELSE <<Head(sorted)>> \o InsertShock_ByMagnitude(Tail(sorted), x)

\* sort_values(by=['z_score'], ascending=False)
RECURSIVE InsertShock(_, _)
InsertShock(sorted, x) ==
    IF sorted = <<>> THEN <<x>>
    ELSE IF ZLess(Head(sorted).z_score, x.z_score) THEN <<x>> \o sorted
    ELSE <<Head(sorted)>> \o InsertShock(Tail(sorted), x)

RECURSIVE SortShocks(_)
SortShocks(seq) ==
    IF seq = <<>> THEN <<>>
    ELSE InsertShock(SortShocks(SubSeq(seq, 1, Len(seq) - 1)), seq[Len(seq)])

\* The value assigned to df['z_score'] with grouping: groupby(...).apply(...) gives
\* one array per group, so the column has one entry per group; pandas refuses the
\* assignment (ValueError) unless there are as many groups as rows, and then every
\* group is a single row whose z-score is NaN.
GroupedZScores(df, group_cols) ==
    LET groups == {GroupKey(df[i], group_cols) : i \in 1..Len(df)}
    IN  IF Cardinality(groups) # Len(df) THEN [raised |-> TRUE, zs |-> <<>>]
        ELSE [raised |-> FALSE,
              zs |-> [i \in 1..Len(df) |-> calculate_zscores(<<df[i].value>>)[1]]]

\* The outcome of a call: [raised, rows].
detect_shocks(df, group_cols, z_threshold) ==
    IF df = <<>> THEN [raised |-> FALSE, rows |-> <<>>]
    ELSE LET scored == IF group_cols # <<>> THEN GroupedZScores(df, group_cols)
                       ELSE [raised |-> FALSE, zs |-> calculate_zscores(ColumnOf(df, "value"))]
         IN  IF scored.raised THEN [raised |-> TRUE, rows |-> <<>>]
             ELSE [raised |-> FALSE,
                   rows |-> SortShocks(ShockEvents(df, scored.zs, z_threshold, 1))]

-----------------------------------------------------------------------------
(* State after construction, and the operations of SkillMatcher *)

\* Job ids are opaque names: the catalog's k-th distinct id is always named
\* JobOrder[k]; the ids not yet in the catalog are the unknown ones.
KnownIds(cat) == {cat[i].id : i \in 1..Len(cat)}
NewId(cat) == IF Len(cat) < Len(JobOrder) THEN {JobOrder[Len(cat) + 1]} ELSE {}

\* Catalogs of at most n profiles, handed to the constructor.
RECURSIVE Catalogs(_)
Catalogs(n) ==
    IF n = 0 THEN {<<>>}
    ELSE LET prev == Catalogs(n - 1)
         IN  prev \cup
             {Append(c, JobProfile(j, s)) :
                 c \in {d \in prev : Len(d) = n - 1}, j \in {JobOrder[n]}, s \in SkillSets}

NoCall == [name |-> "none"]

\* No add_job_profile call is between its first and its last statement.
NoAdd == [step |-> "none"]

\* No _geocode_with_retry call is in progress.
NoGeo == [pc |-> "idle"]

\* SkillMatcher(job_profiles): the state the constructor leaves, given the catalog.
Constructed ==
    /\ skill_graph = _build_skill_graph(job_profiles)
    /\ cooccur = [e \in Edges |->
                    Cardinality({k \in 1..Len(job_profiles) : e \subseteq job_profiles[k].skills})]
    /\ n_adds = 0
    /\ pc = "idle"
    /\ op = NoCall
    /\ result = <<>>
    /\ raised = FALSE
    /\ adding = NoAdd
    /\ first_attrs = FirstSeenIn(<<>>, job_profiles, 1)
    /\ geo = NoGeo

MatcherInit ==
    /\ job_profiles \in Catalogs(MaxInit)
    /\ Constructed

\* TrendDetector() with its default arguments.
DetectorDefaults ==
    /\ min_periods = 3
    /\ threshold = <<1, 10>>

add_job_profile(profile) ==
    /\ job_profiles' = DictSet(job_profiles, profile)
    /\ skill_graph' = _update_skill_graph(skill_graph, profile)
    /\ cooccur' = CountProfile(cooccur, profile)
    /\ n_adds' = n_adds + 1
    /\ first_attrs' = FirstSeen(first_attrs, profile)
    /\ UNCHANGED <<pc, op, result, raised, min_periods, threshold, adding, geo>>

AddJobProfile ==
    /\ pc = "idle"
    /\ n_adds < MaxAdds
    /\ \E j \in KnownIds(job_profiles) \cup NewId(job_profiles), s \in SkillSets :
           add_job_profile(JobProfile(j, s))

\* FindSimilarJobs that rebuilds the skill graph from the catalog before it answers.
FindSimilarJobs_RebuildingGraph ==
    /\ pc = "idle"
    /\ \E source \in Jobs, top_n \in TopNs, min_skill_overlap \in Overlaps :
           /\ result' = find_similar_jobs(job_profiles, source, top_n, min_skill_overlap)
           /\ op' = [name |-> "find_similar_jobs", source |-> source, top_n |-> top_n,
                     min_skill_overlap |-> min_skill_overlap]
           /\ pc' = "returned"
           /\ raised' = FALSE
           /\ skill_graph' = _build_skill_graph(job_profiles)
           /\ UNCHANGED <<job_profiles, cooccur, n_adds, min_periods, threshold, adding, first_attrs, geo>>

FindSimilarJobs ==
    /\ pc = "idle"
    /\ \E source \in Jobs, top_n \in TopNs, min_skill_overlap \in Overlaps :
           /\ result' = find_similar_jobs(job_profiles, source, top_n, min_skill_overlap)
           /\ op' = [name |-> "find_similar_jobs", source |-> source, top_n |-> top_n,
                     min_skill_overlap |-> min_skill_overlap]
           /\ pc' = "returned"
           /\ raised' = FALSE
           /\ UNCHANGED <<job_profiles, skill_graph, cooccur, n_adds, min_periods, threshold, adding, first_attrs, geo>>

FindTransitionPaths ==
    /\ pc = "idle"
    /\ \E source \in Jobs, target \in Jobs, max_hops \in Hops :
           /\ result' = find_transition_paths(job_profiles, source, target, max_hops)
           /\ op' = [name |-> "find_transition_paths", source |-> source, target |-> target,
                     max_hops |-> max_hops]
           /\ pc' = "returned"
           /\ raised' = FALSE
           /\ UNCHANGED <<job_profiles, skill_graph, cooccur, n_adds, min_periods, threshold, adding, first_attrs, geo>>

RecommendTraining ==
    /\ pc = "idle"
    /\ \E source \in Jobs, target \in Jobs, available_courses \in CourseLists :
           /\ result' = recommend_training(job_profiles, source, target, available_courses)
           /\ op' = [name |-> "recommend_training", source |-> source, target |-> target,
                     available_courses |-> available_courses]
           /\ pc' = "returned"
           /\ raised' = FALSE
           /\ UNCHANGED <<job_profiles, skill_graph, cooccur, n_adds, min_periods, threshold, adding, first_attrs, geo>>

\* The caller takes the returned list; the matcher is ready for the next call.
Return ==
    /\ pc = "returned"
    /\ pc' = "idle"
    /\ result' = <<>>
    /\ op' = NoCall
    /\ raised' = FALSE
    /\ UNCHANGED <<job_profiles, skill_graph, cooccur, n_adds, min_periods, threshold, adding, first_attrs, geo>>

DetectTrends ==
    /\ pc = "idle"
    /\ \E df \in Frames, group_cols \in GroupCols :
           /\ result' = detect_trends(df, group_cols, min_periods, threshold)
           /\ raised' = FALSE
           /\ op' = [name |-> "detect_trends", df |-> df, group_cols |-> group_cols]
           /\ pc' = "returned"
           /\ UNCHANGED <<job_profiles, skill_graph, cooccur, n_adds, min_periods, threshold, adding, first_attrs, geo>>

DetectShocks ==
    /\ pc = "idle"
    /\ \E df \in Frames, group_cols \in GroupCols, z_threshold \in ZThresholds :
           LET outcome == detect_shocks(df, group_cols, z_threshold)
           IN  /\ result' = outcome.rows
               /\ raised' = outcome.raised
               /\ op' = [name |-> "detect_shocks", df |-> df, group_cols |-> group_cols,
                         z_threshold |-> z_threshold]
               /\ pc' = "returned"
               /\ UNCHANGED <<job_profiles, skill_graph, cooccur, n_adds, min_periods, threshold, adding, first_attrs, geo>>

Init == MatcherInit /\ DetectorDefaults

\* A TrendDetector with any configuration, beside a matcher with an empty catalog.
TrendInit ==
    /\ job_profiles = <<>>
    /\ MatcherInit
    /\ min_periods \in MinPeriods
    /\ threshold \in Thresholds

TrendNext ==
    \/ DetectTrends
    \/ DetectShocks
    \/ Return

SpecTrend == TrendInit /\ [][TrendNext]_vars

\* The tables of the grouped calls: longer, over fewer values, so that two groups
\* can both reach min_periods rows.
GroupedValues == {1, 2}

GroupedFrames ==
    UNION {{[i \in 1..n |-> [group |-> f[i][1], date |-> n + 1 - i, value |-> f[i][2]]] :
               f \in [1..n -> GroupTuples \X GroupedValues]} : n \in 0..MaxGroupRows}

\* detect_trends called with grouping columns.
DetectTrendsGrouped ==
    /\ pc = "idle"
    /\ \E df \in GroupedFrames, group_cols \in GroupCols \ {<<>>} :
           /\ result' = detect_trends(df, group_cols, min_periods, threshold)
           /\ raised' = FALSE
           /\ op' = [name |-> "detect_trends", df |-> df, group_cols |-> group_cols]
           /\ pc' = "returned"
           /\ UNCHANGED <<job_profiles, skill_graph, cooccur, n_adds, min_periods, threshold, adding, first_attrs, geo>>

GroupsNext ==
    \/ DetectTrendsGrouped
    \/ Return

SpecGroups == TrendInit /\ [][GroupsNext]_vars

Next ==
    \/ AddJobProfile
    \/ FindSimilarJobs
    \/ FindTransitionPaths
    \/ RecommendTraining
    \/ Return

Spec == Init /\ [][Next]_vars

-----------------------------------------------------------------------------
(* add_job_profile statement by statement, with readers on another thread *)

\* self.job_profiles[profile.id] = profile: the catalog entry is written first.
BeginAdd ==
    /\ adding = NoAdd
    /\ n_adds < MaxAdds
    /\ \E j \in KnownIds(job_profiles) \cup NewId(job_profiles), s \in SkillSets :
           /\ job_profiles' = DictSet(job_profiles, JobProfile(j, s))
           /\ adding' = [step |-> "nodes", profile |-> JobProfile(j, s)]
           /\ first_attrs' = FirstSeen(first_attrs, JobProfile(j, s))
    /\ UNCHANGED <<skill_graph, cooccur, n_adds, pc, op, result, raised, min_periods, threshold, geo>>

\* _update_skill_graph, first loop: a node for every skill not yet in the graph.
AddNodes ==
    /\ adding.step = "nodes"
    /\ skill_graph' = AddNewNodes(skill_graph, adding.profile)
    /\ adding' = [adding EXCEPT !.step = "edges"]
    /\ UNCHANGED <<job_profiles, cooccur, n_adds, pc, op, result, raised, min_periods, threshold,
                   first_attrs, geo>>

\* _update_skill_graph, second loop: the edges; then add_job_profile returns.
AddEdges ==
    /\ adding.step = "edges"
    /\ skill_graph' = EdgeLoop(skill_graph, SkillList(adding.profile), 1, 2)
    /\ cooccur' = CountProfile(cooccur, adding.profile)
    /\ n_adds' = n_adds + 1
    /\ adding' = NoAdd
    /\ UNCHANGED <<job_profiles, pc, op, result, raised, min_periods, threshold, first_attrs, geo>>

\* One writer running add_job_profile, and a reader whose queries may run between
\* any two statements of the writer; nothing is locked.
ConcNext ==
    \/ BeginAdd
    \/ AddNodes
    \/ AddEdges
    \/ FindSimilarJobs
    \/ FindTransitionPaths
    \/ RecommendTraining
    \/ Return

SpecConc == Init /\ [][ConcNext]_vars

-----------------------------------------------------------------------------
(* Profiles whose Skill objects differ in their attributes *)

AttrSkills == {"s1", "s2"}

\* The required_skills dicts over AttrSkills: each skill id present maps to a Skill
\* with some attributes.
SkillDicts == UNION {[ids -> SkillAttrs] : ids \in SUBSET AttrSkills}

RECURSIVE SkilledCatalogs(_)
SkilledCatalogs(n) ==
    IF n = 0 THEN {<<>>}
    ELSE LET prev == SkilledCatalogs(n - 1)
         IN  prev \cup
             {Append(c, SkilledProfile(j, d)) :
                 c \in {e \in prev : Len(e) = n - 1}, j \in {JobOrder[n]}, d \in SkillDicts}

AttrInit ==
    /\ job_profiles \in SkilledCatalogs(MaxInit)
    /\ Constructed
    /\ DetectorDefaults

AddSkilledProfile ==
    /\ pc = "idle"
    /\ n_adds < MaxAdds
    /\ \E j \in KnownIds(job_profiles) \cup NewId(job_profiles), d \in SkillDicts :
           add_job_profile(SkilledProfile(j, d))

AttrNext == AddSkilledProfile

SpecAttr == AttrInit /\ [][AttrNext]_vars

-----------------------------------------------------------------------------
(* GeoCoder._geocode_with_retry *)

max_retries == 3
retry_delay == 2    \* seconds

Queries == {"q1", "q2", "q3"}

\* What one call of self.geocoder.geocode(query) does: it returns a location or
\* None, or raises GeocoderTimedOut, GeocoderServiceError or some other Exception.
GeocodeOutcomes ==
    {"location", "none", "GeocoderTimedOut", "GeocoderServiceError", "Exception"}

\* Retryable that takes every exception for a transient one.
Retryable_AnyException(outcome) == outcome \notin {"location", "none"}

\* except (GeocoderTimedOut, GeocoderServiceError)
Retryable(outcome) == outcome \in {"GeocoderTimedOut", "GeocoderServiceError"}

GeoReturned(calls, slept, value) ==
    [geo EXCEPT !.pc = "done", !.calls = calls, !.slept = slept, !.returned = value]

\* _geocode_with_retry(query) is entered: for attempt in range(max_retries), from 0.
GeoCall ==
    /\ geo.pc = "idle"
    /\ \E q \in Queries :
           geo' = [pc |-> "try", query |-> q, attempt |-> 0, calls |-> <<>>, slept |-> 0,
                   returned |-> "nothing"]
    /\ UNCHANGED <<job_profiles, skill_graph, cooccur, n_adds, pc, op, result, raised,
                   min_periods, threshold, adding, first_attrs>>

\* One pass through the try statement: the geocoder is called, and the pass ends in
\* a return or in the handler that goes on to sleep.
GeoTry ==
    /\ geo.pc = "try"
    /\ \E outcome \in GeocodeOutcomes :
           LET calls == Append(geo.calls, outcome)
           IN  geo' = IF outcome = "location" THEN GeoReturned(calls, geo.slept, "GeoPoint")
                      ELSE IF outcome = "none" THEN GeoReturned(calls, geo.slept, "None")
                      ELSE IF Retryable(outcome)
                      THEN IF geo.attempt = max_retries - 1
                           THEN GeoReturned(calls, geo.slept, "None")
                           ELSE [geo EXCEPT !.pc = "sleep", !.calls = calls]
                      ELSE GeoReturned(calls, geo.slept, "None")
    /\ UNCHANGED <<job_profiles, skill_graph, cooccur, n_adds, pc, op, result, raised,
                   min_periods, threshold, adding, first_attrs>>

\* time.sleep(retry_delay * (attempt + 1)), then the next pass of the for loop; a
\* loop that runs out of attempts falls off the end of the function.
GeoSleep ==
    /\ geo.pc = "sleep"
    /\ LET slept == geo.slept + retry_delay * (geo.attempt + 1)
       IN  geo' = IF geo.attempt + 1 < max_retries
                  THEN [geo EXCEPT !.pc = "try", !.attempt = @ + 1, !.slept = slept]
                  ELSE GeoReturned(geo.calls, slept, "None")
    /\ UNCHANGED <<job_profiles, skill_graph, cooccur, n_adds, pc, op, result, raised,
                   min_periods, threshold, adding, first_attrs>>

\* The caller takes the returned value.
GeoReturn ==
    /\ geo.pc = "done"
    /\ geo' = NoGeo
    /\ UNCHANGED <<job_profiles, skill_graph, cooccur, n_adds, pc, op, result, raised,
                   min_periods, threshold, adding, first_attrs>>

GeoInit ==
    /\ job_profiles = <<>>
    /\ Constructed
    /\ DetectorDefaults

GeoNext ==
    \/ GeoCall
    \/ GeoTry
    \/ GeoSleep
    \/ GeoReturn

\* The geocoder call comes back (geopy bounds it by its own timeout, which raises
\* GeocoderTimedOut) and a sleep ends.
SpecGeo == GeoInit /\ [][GeoNext]_vars /\ WF_vars(GeoTry) /\ WF_vars(GeoSleep)

-----------------------------------------------------------------------------
(* Properties *)

Range(seq) == {seq[i] : i \in 1..Len(seq)}

OtherJobs(cat, id) == KnownIds(cat) \ {id}

\* C1: the list returned by find_transition_paths holds no path of difficulty >= 1.0
\* and no two paths with the same missing_skills set, for every pair of job ids and
\* every max_hops.
C1_FeasibleAndUnique ==
    op.name = "find_transition_paths" =>
        /\ \A i \in 1..Len(result) : Lt(result[i].transition_difficulty, One)
        /\ \A i, k \in 1..Len(result) :
               result[i].missing_skills = result[k].missing_skills => i = k

\* C1 happens: two feasible candidates (the direct path and one through an
\* intermediate job) share their missing_skills set and one path is returned.
C1_Witness ==
    /\ op.name = "find_transition_paths"
    /\ op.max_hops >= 1
    /\ HasJob(job_profiles, op.source) /\ HasJob(job_profiles, op.target)
    /\ Len(result) = 1
    /\ LET via == IntermediatePaths(job_profiles, op.source, op.target, 1)
       IN  /\ Len(via) = 1
           /\ via[1].missing_skills = result[1].missing_skills
           /\ via[1].missing_skills # {}
           /\ Lt(via[1].transition_difficulty,
                 _create_transition_path(op.source, op.target,
                     GetJob(job_profiles, op.source).skills,
                     GetJob(job_profiles, op.target).skills).transition_difficulty)

UnknownJobIn(call, cat) ==
    \/ call.name = "find_similar_jobs" /\ ~HasJob(cat, call.source)
    \/ /\ call.name \in {"find_transition_paths", "recommend_training"}
       /\ ~HasJob(cat, call.source) \/ ~HasJob(cat, call.target)

\* C2: a SkillMatcher query given a job id that is not in the catalog (the source of
\* find_similar_jobs; the source or the target of find_transition_paths and
\* recommend_training) returns an empty list, does not raise, and leaves the catalog
\* and the skill graph as they were.
C2_UnknownJobEmptyList ==
    [][(pc = "idle" /\ pc' = "returned" /\ UnknownJobIn(op', job_profiles)) =>
          /\ result' = <<>>
          /\ raised' = FALSE
          /\ job_profiles' = job_profiles
          /\ skill_graph' = skill_graph]_vars

\* C2 happens: recommend_training returned the empty list for an unknown source and a
\* known target, with a course on offer that covers a skill of the target.
C2_Witness ==
    /\ pc = "returned"
    /\ op.name = "recommend_training"
    /\ ~HasJob(job_profiles, op.source)
    /\ HasJob(job_profiles, op.target)
    /\ \E c \in Range(op.available_courses) :
           c.has_skills_covered
           /\ c.skills_covered \cap GetJob(job_profiles, op.target).skills # {}
    /\ result = <<>>

\* C7: similarity is symmetric: for two distinct catalog jobs A and B, the same
\* min_skill_overlap and top_n at least the catalog size, B is returned for source A
\* with score s exactly when A is returned for source B with score s.
C7_SimilaritySymmetric ==
    (/\ op.name = "find_similar_jobs"
     /\ HasJob(job_profiles, op.source)
     /\ op.top_n >= Len(job_profiles)) =>
        \A b \in OtherJobs(job_profiles, op.source) :
            LET back == find_similar_jobs(job_profiles, b, op.top_n, op.min_skill_overlap)
            IN  {e.similarity : e \in {x \in Range(result) : x.job_id = b}}
                = {e.similarity : e \in {x \in Range(back) : x.job_id = op.source}}

\* C8: for a known source and top_n >= 0 the list returned by find_similar_jobs has
\* at most top_n entries, none for the source, at most one per job id, every score is
\* |S n T| / |S u T| of the two skill sets and at least min_skill_overlap, and the
\* scores do not increase along the list.
C8_SimilarJobsSound ==
    (/\ op.name = "find_similar_jobs"
     /\ HasJob(job_profiles, op.source)
     /\ op.top_n >= 0) =>
        LET s == GetJob(job_profiles, op.source).skills
        IN  /\ Len(result) <= op.top_n
            /\ \A i \in 1..Len(result) :
                   /\ result[i].job_id # op.source
                   /\ HasJob(job_profiles, result[i].job_id)
            /\ \A i, k \in 1..Len(result) : result[i].job_id = result[k].job_id => i = k
            /\ \A i \in 1..Len(result) :
                   LET t == GetJob(job_profiles, result[i].job_id).skills
                   IN  /\ Cardinality(s \cup t) > 0
                       /\ result[i].similarity[1] * Cardinality(s \cup t)
                          = Cardinality(s \cap t) * result[i].similarity[2]
                       /\ Le(op.min_skill_overlap, result[i].similarity)
            /\ \A i \in 1..(Len(result) - 1) :
                   Le(result[i + 1].similarity, result[i].similarity)

\* C8 happens: two jobs are returned, and the one with the higher score comes first
\* although it comes later in the catalog.
C8_Witness ==
    /\ op.name = "find_similar_jobs"
    /\ op.top_n >= 2
    /\ Len(result) = 2
    /\ Lt(result[2].similarity, result[1].similarity)
    /\ \E i, k \in 1..Len(job_profiles) :
           /\ i < k
           /\ job_profiles[i].id = result[2].job_id
           /\ job_profiles[k].id = result[1].job_id

\* C9: find_similar_jobs is complete: for a known source every other catalog job
\* whose Jaccard similarity with the source is at least min_skill_overlap is returned
\* when there are at most top_n of them, otherwise top_n jobs with the highest scores
\* are; the result is empty only if no other job meets the threshold.
C9_SimilarJobsComplete ==
    (/\ op.name = "find_similar_jobs"
     /\ HasJob(job_profiles, op.source)
     /\ op.top_n >= 1) =>
        LET s == GetJob(job_profiles, op.source).skills
            score(b) == Quot(Cardinality(s \cap GetJob(job_profiles, b).skills),
                             Cardinality(s \cup GetJob(job_profiles, b).skills))
            meets == {b \in OtherJobs(job_profiles, op.source) :
                         /\ s \cup GetJob(job_profiles, b).skills # {}
                         /\ Le(op.min_skill_overlap, score(b))}
            returned == {result[i].job_id : i \in 1..Len(result)}
        IN  /\ Cardinality(meets) <= op.top_n => meets \subseteq returned
            /\ Cardinality(meets) > op.top_n =>
                   /\ Len(result) = op.top_n
                   /\ \A b \in meets \ returned, c \in returned : Le(score(b), score(c))
            /\ result = <<>> => meets = {}

\* C10: for every pair of distinct skills the edge weight is the number of profiles
\* of the initial catalog requiring both plus the number of add_job_profile calls
\* whose profile requires both (a repeated add of one job id counts again), and the
\* edge is absent exactly when that number is 0.
C10_WeightIsCooccurrence ==
    /\ DOMAIN skill_graph.weight \subseteq Edges
    /\ \A e \in Edges :
           /\ e \in DOMAIN skill_graph.weight <=> cooccur[e] > 0
           /\ e \in DOMAIN skill_graph.weight => skill_graph.weight[e] = cooccur[e]

\* C10 happens: after an add the catalog holds one job, whose profile was given to
\* the matcher twice, and an edge has weight 2.
C10_Witness ==
    /\ n_adds = 1
    /\ Len(job_profiles) = 1
    /\ \E e \in DOMAIN skill_graph.weight : skill_graph.weight[e] = 2

-----------------------------------------------------------------------------
(* Properties of the TrendDetector, under SpecTrend *)

GroupNamesOf(df, group_cols) == {GroupKey(df[i], group_cols) : i \in 1..Len(df)}

GroupSize(df, group_cols, name) ==
    Cardinality({i \in 1..Len(df) : GroupKey(df[i], group_cols) = name})

\* All values of the rows are equal: zero variance.
Flat(rows) == \A i, k \in 1..Len(rows) : rows[i].value = rows[k].value

C4_ConstantSeriesStable ==
    (/\ op.name = "detect_trends"
     /\ op.group_cols = <<>>
     /\ Len(op.df) >= min_periods
     /\ Flat(op.df)) =>
        /\ Len(result) = 1
        /\ result[1].value.confidence = Zero
        /\ result[1].value.direction = "STABLE"

\* The z-score of row i of df within its own group (the whole table without grouping).
RowZScore(df, group_cols, i) ==
    LET rows == GroupRows(df, group_cols, GroupKey(df[i], group_cols))
        k == CHOOSE k \in 1..Len(rows) : rows[k].date = df[i].date
    IN  calculate_zscores(ColumnOf(rows, "value"))[k]

\* C5: detect_shocks emits no row whose |z| is below z_threshold and emits every row
\* whose |z| is at or above z_threshold.
C5_ShocksAreRowsAtOrAboveThreshold ==
    op.name = "detect_shocks" =>
        /\ \A k \in 1..Len(result) : ShockMask(result[k].z_score, op.z_threshold)
        /\ \A i \in 1..Len(op.df) :
               ShockMask(RowZScore(op.df, op.group_cols, i), op.z_threshold)
               => \E k \in 1..Len(result) : result[k].date = op.df[i].date

\* The rows of the group (or of the whole table) that an emitted row belongs to.
GroupOfShock(row) == GroupRows(op.df, op.group_cols, GroupKey(row, op.group_cols))

-----------------------------------------------------------------------------
(* Properties of the catalog and the graph over time, under Spec *)

\* C11: across every operation of the SkillMatcher no graph node and no edge is
\* removed, no edge weight decreases and no job id leaves the catalog.
C11_GraphAndCatalogOnlyGrow ==
    [][/\ skill_graph.nodes \subseteq skill_graph'.nodes
       /\ DOMAIN skill_graph.weight \subseteq DOMAIN skill_graph'.weight
       /\ \A e \in DOMAIN skill_graph.weight : skill_graph.weight[e] <= skill_graph'.weight[e]
       /\ KnownIds(job_profiles) \subseteq KnownIds(job_profiles')]_vars

\* C11 happens: a job was added again with fewer skills, and the graph still holds
\* a node and an edge that no profile of the catalog requires any more.
C11_Witness ==
    /\ n_adds >= 1
    /\ \E s \in skill_graph.nodes :
           \A k \in 1..Len(job_profiles) : s \notin job_profiles[k].skills
    /\ \E e \in DOMAIN skill_graph.weight :
           \A k \in 1..Len(job_profiles) : ~(e \subseteq job_profiles[k].skills)

\* C12: after any sequence of add_job_profile calls the graph (nodes, edges and
\* weights) equals the graph a new SkillMatcher builds from the resulting catalog.
C12_GraphIsRebuildable ==
    skill_graph = _build_skill_graph(job_profiles)

-----------------------------------------------------------------------------
(* Further properties of detect_trends, under SpecTrend *)

\* The value of the earliest (latest) row of a table.
FirstValue(df) == (CHOOSE r \in Range(df) : \A q \in Range(df) : r.date <= q.date).value
LastValue(df) == (CHOOSE r \in Range(df) : \A q \in Range(df) : r.date >= q.date).value

\* C13: with pct_change = (end_value - start_value) / start_value, or 0 when
\* start_value = 0, every TrendResult has magnitude = |pct_change| and direction
\* STABLE iff |pct_change| < threshold, INCREASING iff |pct_change| >= threshold and
\* pct_change > 0, DECREASING otherwise, and never VOLATILE.
C13_DirectionFromPctChange ==
    op.name = "detect_trends" =>
        /\ \A k \in 1..Len(result) :
               LET v == result[k].value
                   start == v.start_value
                   diff == v.end_value - v.start_value
                   \* |pct_change| < threshold and pct_change > 0, without a division
                   small == IF start = 0 THEN 0 < threshold[1]
                            ELSE Abs(diff) * threshold[2] < threshold[1] * Abs(start)
                   positive == start # 0 /\ diff * start > 0
               IN  /\ v.magnitude[2] > 0
                   /\ IF start = 0 THEN v.magnitude[1] = 0
                      ELSE v.magnitude[1] * Abs(start) = Abs(diff) * v.magnitude[2]
                   /\ v.direction \in {"STABLE", "INCREASING", "DECREASING"}
                   /\ v.direction = "STABLE" <=> small
                   /\ v.direction = "INCREASING" <=> (~small /\ positive)
                   /\ v.direction = "DECREASING" <=> (~small /\ ~positive)
        /\ (op.group_cols = <<>> /\ Len(result) = 1) =>
               /\ result[1].value.start_value = FirstValue(op.df)
               /\ result[1].value.end_value = LastValue(op.df)

\* C13 happens: a series rising from 1 to 2 is analysed with threshold 1.0, so
\* |pct_change| equals the threshold, and the result is INCREASING with magnitude 1.
C13_Witness ==
    /\ op.name = "detect_trends"
    /\ op.group_cols = <<>>
    /\ threshold = <<1, 1>>
    /\ Len(result) = 1
    /\ FirstValue(op.df) = 1
    /\ LastValue(op.df) = 2
    /\ result[1].value.direction = "INCREASING"
    /\ result[1].value.magnitude = <<1, 1>>

-----------------------------------------------------------------------------
(* Further properties of find_transition_paths, under Spec *)

\* The direct path of the call whose result is held.
DirectPathOfCall ==
    _create_transition_path(op.source, op.target,
        GetJob(job_profiles, op.source).skills, GetJob(job_profiles, op.target).skills)

KnownPair == HasJob(job_profiles, op.source) /\ HasJob(job_profiles, op.target)

\* C14: with max_hops <= 0 and both jobs known, find_transition_paths returns the
\* one-element list of the direct path when its transition_difficulty < 1.0 and the
\* empty list otherwise; no intermediate job is considered.
C14_NoHopsDirectOnly ==
    (op.name = "find_transition_paths" /\ op.max_hops <= 0 /\ KnownPair) =>
        result = IF Lt(DirectPathOfCall.transition_difficulty, One)
                 THEN <<DirectPathOfCall>> ELSE <<>>

\* C14 happens: max_hops = 0, the direct path is returned alone although the catalog
\* holds an intermediate job that a search with one hop turns into a second path.
C14_Witness ==
    /\ op.name = "find_transition_paths"
    /\ op.max_hops = 0
    /\ KnownPair
    /\ Len(result) = 1
    /\ Len(find_transition_paths(job_profiles, op.source, op.target, 1)) = 2

C16_TransitionPathFields ==
    pc = "idle" => \A i, k \in 1..Len(job_profiles) :
        LET S == job_profiles[i].skills
            T == job_profiles[k].skills
            path == _create_transition_path(job_profiles[i].id, job_profiles[k].id, S, T)
        IN  /\ path.source_job = job_profiles[i].id
            /\ path.target_job = job_profiles[k].id
            /\ path.skill_overlap = S \cap T
            /\ path.missing_skills = T \ S
            /\ path.skill_gap[2] > 0
            /\ IF T = {} THEN path.skill_gap[1] = path.skill_gap[2]
               ELSE path.skill_gap[1] * Cardinality(T) = Cardinality(T \ S) * path.skill_gap[2]
            /\ path.transition_difficulty = path.skill_gap
            /\ 0 <= path.skill_gap[1] /\ path.skill_gap[1] <= path.skill_gap[2]
            /\ path.common_skills_count = Cardinality(S \cap T)
            /\ path.missing_skills_count = Cardinality(T \ S)

\* C16 happens: the direct path from a job with skills {s1, s2} to a job with skills
\* {s2, s3} is returned with missing_skills {s3}, skill_gap 1/2 and difficulty 1/2.
C16_Witness ==
    /\ op.name = "find_transition_paths"
    /\ op.max_hops = 0
    /\ KnownPair
    /\ GetJob(job_profiles, op.source).skills = {"s1", "s2"}
    /\ GetJob(job_profiles, op.target).skills = {"s2", "s3"}
    /\ Len(result) = 1
    /\ result[1].missing_skills = {"s3"}
    /\ result[1].skill_overlap = {"s2"}
    /\ result[1].skill_gap = <<1, 2>>
    /\ result[1].transition_difficulty = <<1, 2>>

-----------------------------------------------------------------------------
(* Further properties of recommend_training, under Spec *)

\* C17: for known jobs with missing = target skills minus source skills,
\* recommend_training returns the empty list when missing is empty, and otherwise
\* exactly one record per course that has a 'skills_covered' field intersecting
\* missing, with relevance_score = |covered and missing| / |missing| in (0, 1], in
\* order of non-increasing relevance_score.
C17_TrainingByRelevance ==
    (op.name = "recommend_training" /\ KnownPair) =>
        LET missing == GetJob(job_profiles, op.target).skills
                       \ GetJob(job_profiles, op.source).skills
            courses == op.available_courses
            relevant == {c \in 1..Len(courses) :
                            /\ courses[c].has_skills_covered
                            /\ courses[c].skills_covered \cap missing # {}}
        IN  IF missing = {} THEN result = <<>>
            ELSE /\ Len(result) = Cardinality(relevant)
                 /\ \A c \in relevant :
                        \E k \in 1..Len(result) :
                            /\ result[k].course_id = courses[c].id
                            /\ result[k].relevance_score[2] > 0
                            /\ result[k].relevance_score[1] * Cardinality(missing)
                               = Cardinality(courses[c].skills_covered \cap missing)
                                 * result[k].relevance_score[2]
                 /\ \A k \in 1..Len(result) :
                        /\ 0 < result[k].relevance_score[1]
                        /\ result[k].relevance_score[1] <= result[k].relevance_score[2]
                 /\ \A k \in 1..(Len(result) - 1) :
                        result[k + 1].relevance_score[1] * result[k].relevance_score[2]
                        <= result[k].relevance_score[1] * result[k + 1].relevance_score[2]

\* C17 happens: for the transition from skills {s1, s2} to skills {s2, s3} the course
\* without the field is left out and the courses covering s3 are returned with
\* relevance_score 1.0, the one that also covers s1 included.
C17_Witness ==
    /\ op.name = "recommend_training"
    /\ KnownPair
    /\ GetJob(job_profiles, op.source).skills = {"s1", "s2"}
    /\ GetJob(job_profiles, op.target).skills = {"s2", "s3"}
    /\ Len(op.available_courses) = 3
    /\ Len(result) = 2
    /\ \A k \in 1..2 : result[k].relevance_score = <<1, 1>>

-----------------------------------------------------------------------------
(* Further properties of detect_shocks, under SpecTrend *)

\* C18: with grouping columns detect_shocks completes without raising and scores
\* every row within its own group (value minus the group's mean over the group's
\* sample standard deviation, 0 when that deviation is 0): the rows it emits are the
\* rows whose own-group z-score passes the threshold, each carrying that z-score.
C18_GroupedRowsScoredInOwnGroup ==
    (op.name = "detect_shocks" /\ op.group_cols # <<>>) =>
        /\ ~raised
        /\ \A i \in 1..Len(op.df) :
               LET z == RowZScore(op.df, op.group_cols, i)
               IN  ShockMask(z, op.z_threshold) <=>
                       \E k \in 1..Len(result) :
                           /\ result[k].date = op.df[i].date
                           /\ result[k].z_score = z

-----------------------------------------------------------------------------
(* The candidates through an intermediate job, under Spec *)

\* The two legs of the way from source to target through the catalog job mid.
LegTo(source, mid) ==
    _create_transition_path(source, mid,
        GetJob(job_profiles, source).skills, GetJob(job_profiles, mid).skills)

LegFrom(mid, target) ==
    _create_transition_path(mid, target,
        GetJob(job_profiles, mid).skills, GetJob(job_profiles, target).skills)

\* path is the combination of the two legs that the claim describes.
CombinesLegs(path, source, target, first, second) ==
    /\ path.source_job = source
    /\ path.target_job = target
    /\ path.transition_difficulty \in {first.transition_difficulty, second.transition_difficulty}
    /\ Le(first.transition_difficulty, path.transition_difficulty)
    /\ Le(second.transition_difficulty, path.transition_difficulty)
    /\ path.skill_gap \in {first.skill_gap, second.skill_gap}
    /\ Le(first.skill_gap, path.skill_gap)
    /\ Le(second.skill_gap, path.skill_gap)
    /\ path.skill_overlap = first.skill_overlap \cup second.skill_overlap
    /\ path.missing_skills = first.missing_skills \cup second.missing_skills
    /\ path.common_skills_count = first.common_skills_count + second.common_skills_count
    /\ path.missing_skills_count = first.missing_skills_count + second.missing_skills_count

\* C20: for max_hops >= 1 a catalog job other than source and target contributes a
\* candidate path iff both legs have transition_difficulty < 1.0, and the candidate
\* has the source and target of the call, the max of the legs' difficulties and
\* gaps, the union of their skill sets and the sum of their counts. Stated for
\* every pair of jobs of the catalog between two calls.
C20_IntermediateCandidates ==
    pc = "idle" =>
        \A source, target \in KnownIds(job_profiles) :
            LET via == IntermediatePaths(job_profiles, source, target, 1)
                mids == SelectSeq(job_profiles, LAMBDA p :
                            /\ p.id \notin {source, target}
                            /\ Lt(LegTo(source, p.id).transition_difficulty, One)
                            /\ Lt(LegFrom(p.id, target).transition_difficulty, One))
            IN  /\ Len(via) = Len(mids)
                /\ \A k \in 1..Len(mids) :
                       CombinesLegs(via[k], source, target,
                                    LegTo(source, mids[k].id), LegFrom(mids[k].id, target))

\* C20 happens: a call with max_hops >= 1 returns a path that is not the direct one
\* and combines two legs of different difficulty through a third job.
C20_Witness ==
    /\ op.name = "find_transition_paths"
    /\ op.max_hops >= 1
    /\ KnownPair
    /\ \E k \in 1..Len(result), m \in KnownIds(job_profiles) \ {op.source, op.target} :
           /\ result[k] # DirectPathOfCall
           /\ LegTo(op.source, m).transition_difficulty
              # LegFrom(m, op.target).transition_difficulty
           /\ Lt(LegTo(op.source, m).transition_difficulty, One)
           /\ Lt(LegFrom(m, op.target).transition_difficulty, One)
           /\ CombinesLegs(result[k], op.source, op.target,
                           LegTo(op.source, m), LegFrom(m, op.target))

-----------------------------------------------------------------------------
(* Catalog and graph seen by a reader, under SpecConc *)

\* Every required skill of every catalog profile is a node and every pair of skills
\* of one catalog profile is joined by an edge.
Consistent(cat, g) ==
    \A k \in 1..Len(cat) :
        /\ cat[k].skills \subseteq g.nodes
        /\ \A s, u \in cat[k].skills : s # u => {s, u} \in DOMAIN g.weight

\* C19: in every state in which no add_job_profile call is in progress, each
\* required skill of each catalog profile is a graph node and each pair of skills of
\* one catalog profile is joined by an edge.
C19_ConsistentWhenNoWriter ==
    adding = NoAdd => Consistent(job_profiles, skill_graph)

\* C19 happens: while an add_job_profile call is between writing the catalog entry
\* and updating the graph, a reader's find_similar_jobs has returned the job being
\* added, whose skills are not yet joined in the graph.
C19_Witness ==
    /\ adding # NoAdd
    /\ pc = "returned"
    /\ op.name = "find_similar_jobs"
    /\ \E k \in 1..Len(result) : result[k].job_id = adding.profile.id
    /\ ~Consistent(job_profiles, skill_graph)

-----------------------------------------------------------------------------
(* Deduplication and order of the returned paths, under Spec *)

\* The feasible candidates of the call whose result is held: the direct path, then
\* the accepted intermediates in catalog order.
CandidatesOfCall ==
    SelectSeq(<<DirectPathOfCall>> \o IntermediatePaths(job_profiles, op.source, op.target, 1),
              LAMBDA p : Lt(p.transition_difficulty, One))

\* C21: for every missing_skills set occurring among the feasible candidates, the
\* single returned path with that set has the minimum difficulty over the candidates
\* with that set and is, among those of minimum difficulty, the one that comes first
\* (direct path first, then intermediates in catalog order).
C21_DedupKeepsFirstMinimum ==
    (op.name = "find_transition_paths" /\ op.max_hops >= 1 /\ KnownPair) =>
        LET cands == CandidatesOfCall
        IN  /\ \A k \in 1..Len(result) : \E c \in 1..Len(cands) : cands[c] = result[k]
            /\ \A c \in 1..Len(cands) :
                   LET same == {d \in 1..Len(cands) :
                                   cands[d].missing_skills = cands[c].missing_skills}
                       best == CHOOSE d \in same :
                                   \A e \in same :
                                       \/ Lt(cands[d].transition_difficulty,
                                             cands[e].transition_difficulty)
                                       \/ /\ cands[d].transition_difficulty
                                             = cands[e].transition_difficulty
                                          /\ d <= e
                       kept == {k \in 1..Len(result) :
                                   result[k].missing_skills = cands[c].missing_skills}
                   IN  /\ Cardinality(kept) = 1
                       /\ \A k \in kept : result[k] = cands[best]

\* C21 happens: the direct path and a path through an intermediate job have the
\* same missing_skills and the same difficulty but differ in their counts, and the
\* direct path, which comes first, is the one returned.
C21_Witness ==
    /\ op.name = "find_transition_paths"
    /\ op.max_hops >= 1
    /\ KnownPair
    /\ Len(result) = 1
    /\ result[1] = DirectPathOfCall
    /\ \E c \in 2..Len(CandidatesOfCall) :
           /\ CandidatesOfCall[c].missing_skills = DirectPathOfCall.missing_skills
           /\ CandidatesOfCall[c].transition_difficulty = DirectPathOfCall.transition_difficulty
           /\ CandidatesOfCall[c] # DirectPathOfCall

\* C22: the returned list is ordered by ascending transition_difficulty and, among
\* paths of equal difficulty, by descending common_skills_count.
C22_PathsOrdered ==
    op.name = "find_transition_paths" =>
        \A k \in 1..(Len(result) - 1) :
            \/ result[k].transition_difficulty[1] * result[k + 1].transition_difficulty[2]
               < result[k + 1].transition_difficulty[1] * result[k].transition_difficulty[2]
            \/ /\ result[k].transition_difficulty[1] * result[k + 1].transition_difficulty[2]
                  = result[k + 1].transition_difficulty[1] * result[k].transition_difficulty[2]
               /\ result[k].common_skills_count >= result[k + 1].common_skills_count

\* C22 happens: two paths of equal difficulty are returned, the one with more common
\* skills first, although it was found later.
C22_Witness ==
    /\ op.name = "find_transition_paths"
    /\ KnownPair
    /\ Len(result) = 2
    /\ result[1].transition_difficulty = result[2].transition_difficulty
    /\ result[1].common_skills_count > result[2].common_skills_count
    /\ result[2] = DirectPathOfCall

-----------------------------------------------------------------------------
(* Annotation and order of the emitted shocks, under SpecTrend *)

\* The row of the table that an emitted row was made from.
SourceRow(shock) == CHOOSE i \in 1..Len(op.df) : op.df[i].date = shock.date

\* C23: every row emitted by detect_shocks carries shock_magnitude = |z| and
\* shock_direction "positive" iff z > 0, otherwise "negative"; a row emitted with
\* z = 0 is labelled "negative".
C23_ShockAnnotations ==
    op.name = "detect_shocks" =>
        \A k \in 1..Len(result) :
            LET z == IF op.group_cols = <<>>
                     THEN RowZScore(op.df, op.group_cols, SourceRow(result[k]))
                     ELSE result[k].z_score
            IN  /\ result[k].z_score = z
                /\ result[k].shock_magnitude.sq = z.sq
                /\ result[k].shock_magnitude.sgn = (IF z.sgn = 0 THEN 0 ELSE 1)
                /\ result[k].shock_direction = "positive" <=> z.sgn > 0
                /\ result[k].shock_direction = "negative" <=> z.sgn <= 0
                /\ z.sgn = 0 => Le(op.z_threshold, Zero)

\* C23 happens: with z_threshold <= 0 a row with z = 0 is emitted beside rows with
\* other z-scores and is labelled "negative" with magnitude 0.
C23_Witness ==
    /\ op.name = "detect_shocks"
    /\ Le(op.z_threshold, Zero)
    /\ \E k, m \in 1..Len(result) :
           /\ result[k].z_score.sgn = 0
           /\ result[k].shock_direction = "negative"
           /\ result[k].shock_magnitude.sq = Zero
           /\ result[m].z_score.sgn > 0
           /\ result[m].shock_direction = "positive"

\* C24: the rows returned by detect_shocks are in descending order of the signed
\* z-score: every positive shock precedes every negative shock and no row has a
\* smaller z-score than the row after it.
C24_ShocksSortedBySignedZ ==
    op.name = "detect_shocks" =>
        /\ \A k, m \in 1..Len(result) :
               (result[k].z_score.sgn > 0 /\ result[m].z_score.sgn < 0) => k < m
        /\ \A k \in 1..(Len(result) - 1) :
               LET y == result[k].z_score
                   z == result[k + 1].z_score
               IN  /\ y.sgn >= z.sgn
                   /\ (y.sgn = z.sgn /\ y.sgn > 0) => z.sq[1] * y.sq[2] <= y.sq[1] * z.sq[2]
                   /\ (y.sgn = z.sgn /\ y.sgn < 0) => y.sq[1] * z.sq[2] <= z.sq[1] * y.sq[2]

\* C24 happens: a positive shock comes before a negative shock of greater magnitude.
C24_Witness ==
    /\ op.name = "detect_shocks"
    /\ Len(result) >= 2
    /\ result[1].z_score.sgn > 0
    /\ result[Len(result)].z_score.sgn < 0
    /\ Lt(result[1].z_score.sq, result[Len(result)].z_score.sq)

-----------------------------------------------------------------------------
(* The queries as functions of the catalog, under Spec *)

\* What a call returns on a matcher whose catalog is cat, whatever its graph.
QueryOn(cat, call) ==
    CASE call.name = "find_similar_jobs" ->
            find_similar_jobs(cat, call.source, call.top_n, call.min_skill_overlap)
      [] call.name = "find_transition_paths" ->
            find_transition_paths(cat, call.source, call.target, call.max_hops)
      [] call.name = "recommend_training" ->
            recommend_training(cat, call.source, call.target, call.available_courses)
      [] OTHER -> <<>>

\* C27: find_similar_jobs, find_transition_paths and recommend_training leave the
\* catalog and the skill graph unchanged, and what they return is a function of the
\* catalog and the arguments only, the same for every skill graph.
C27_QueriesReadOnly ==
    [][(pc = "idle" /\ pc' = "returned") =>
           /\ job_profiles' = job_profiles
           /\ skill_graph' = skill_graph
           /\ ~raised'
           /\ result' = QueryOn(job_profiles, op')]_vars

\* C27 happens: a query has returned a non-empty list on a matcher whose graph is
\* not the graph that a matcher constructed from the same catalog holds.
C27_Witness ==
    /\ pc = "returned"
    /\ op.name \in {"find_similar_jobs", "find_transition_paths", "recommend_training"}
    /\ result # <<>>
    /\ skill_graph # _build_skill_graph(job_profiles)
    /\ Len(job_profiles) <= MaxInit

\* C28: every TransitionPath returned by find_transition_paths, direct or through
\* an intermediate job, has common_skills_count = |skill_overlap|,
\* missing_skills_count = |missing_skills| and disjoint skill_overlap and
\* missing_skills.
C28_PathsInternallyConsistent ==
    op.name = "find_transition_paths" =>
        \A k \in 1..Len(result) :
            /\ result[k].common_skills_count = Cardinality(result[k].skill_overlap)
            /\ result[k].missing_skills_count = Cardinality(result[k].missing_skills)
            /\ result[k].skill_overlap \cap result[k].missing_skills = {}

-----------------------------------------------------------------------------
(* Direction against the raw endpoints, under SpecTrend *)

\* C30: for every TrendResult, direction INCREASING implies end_value > start_value
\* and direction DECREASING implies end_value < start_value, for every series and
\* every threshold.
C30_DirectionAgreesWithEndpoints ==
    op.name = "detect_trends" =>
        \A k \in 1..Len(result) :
            LET v == result[k].value
            IN  /\ v.direction = "INCREASING" => v.end_value > v.start_value
                /\ v.direction = "DECREASING" => v.end_value < v.start_value

-----------------------------------------------------------------------------
(* The keys of the grouped trends, under SpecGroups *)

\* C29: with grouping, detect_trends returns exactly one entry per distinct group
\* that has at least min_periods rows: distinct group-key tuples have distinct
\* result keys, the number of entries is the number of such groups, and each such
\* group's entry holds the TrendResult of its own rows.
C29_OneEntryPerGroup ==
    (op.name = "detect_trends" /\ op.group_cols # <<>>) =>
        LET sorted == sort_values(op.df, op.group_cols)
            large == {g \in GroupNamesOf(op.df, op.group_cols) :
                         GroupSize(op.df, op.group_cols, g) >= min_periods}
        IN  /\ Len(result) = Cardinality(large)
            /\ \A g, h \in large : g # h => JoinKey(g) # JoinKey(h)
            /\ \A g \in large :
                   \E k \in 1..Len(result) :
                       /\ result[k].key = JoinKey(g)
                       /\ result[k].value =
                              _analyze_series(ColumnOf(GroupRows(sorted, op.group_cols, g), "value"),
                                              ColumnOf(GroupRows(sorted, op.group_cols, g), "date"),
                                              min_periods, threshold)

\* C25: every node of the graph carries the attributes of the Skill object of the
\* first profile, in catalog and insertion order, that required its skill id; a
\* later profile with the same skill id and other attributes never changes them,
\* in the constructor as in add_job_profile.
C25_NodeAttrsOfFirstProfile ==
    \A s \in skill_graph.nodes : skill_graph.attrs[s] = first_attrs[s]

\* C26: for one query _geocode_with_retry calls the geocoder at most 3 times; every
\* call but the last ended in a timeout or a service error; a found location is
\* returned as a GeoPoint and a not-found result, any other exception and the third
\* timeout or service error in a row give None, each without a further sleep; a
\* timeout or service error ends the call only on the third attempt; and every call
\* that was entered returns.
C26_RetryCappedAndTerminates ==
    /\ [](geo.pc # "idle" =>
            /\ Len(geo.calls) <= 3
            /\ \A i \in 1..(Len(geo.calls) - 1) :
                   geo.calls[i] \in {"GeocoderTimedOut", "GeocoderServiceError"}
            /\ geo.pc = "done" =>
                   LET n == Len(geo.calls)
                       last == geo.calls[n]
                   IN  /\ n >= 1
                       /\ geo.returned = IF last = "location" THEN "GeoPoint" ELSE "None"
                       /\ last \in {"GeocoderTimedOut", "GeocoderServiceError"} => n = 3
                       /\ geo.slept = IF n = 1 THEN 0 ELSE IF n = 2 THEN 2 ELSE 6)
    /\ (geo.pc = "try" ~> geo.pc = "done")

\* Three timeouts in a row: the third one ends the call with None.
C26_Witness ==
    /\ geo.pc = "done"
    /\ geo.calls = <<"GeocoderTimedOut", "GeocoderTimedOut", "GeocoderTimedOut">>
    /\ geo.returned = "None"

====
